---------------------------- MODULE Spec2Model ----------------------------
(***************************************************************************)
(* Workbook extraction and edit synchronisation of the excel-viewer App    *)
(* component: src/src/App.js (the component at lines 1-447) and the        *)
(* earlier revision kept in src/src/working.js.  The two helpers rgbToHex  *)
(* and colWidths of the component at src/src/App.js:571-907 are modelled   *)
(* as pure operators beside their counterparts of the first component.     *)
(*                                                                         *)
(* JavaScript strings are sequences of one-character strings, so that      *)
(* "=" + f, startsWith("="), String(x) and slice(2) are computed, not      *)
(* assumed.  A JavaScript value is a record [t, n, s]: its typeof tag, its *)
(* number (or 0) and its text (or <<>>).  A JavaScript array of rows is a  *)
(* sequence of [ok, cells]: ok = FALSE is a hole (an index never           *)
(* assigned); index i of the code is index i + 1 here.                     *)
(***************************************************************************)
EXTENDS Integers, Sequences, FiniteSets, TLC

\* ------------------------------------------------------------------ bounds
MaxCells == 2        \* cells reported by the change events of one run
MaxTimers == 2       \* deferred callbacks pending at one time
MaxHotCells == 1     \* cells reported by the change events of one run of the
                     \* specification that includes the grid widget

\* --------------------------------------------------------- JavaScript values
JsUndefined == [t |-> "undefined", n |-> 0, s |-> <<>>]
JsNull == [t |-> "object", n |-> 0, s |-> <<>>]
JsNumber(x) == [t |-> "number", n |-> x, s |-> <<>>]
JsBoolean(b) == [t |-> "boolean", n |-> IF b THEN 1 ELSE 0, s |-> <<>>]
JsString(chars) == [t |-> "string", n |-> 0, s |-> chars]
EmptyString == JsString(<<>>)

DigitChars == <<"0", "1", "2", "3", "4", "5", "6", "7", "8", "9">>
ColumnChars == <<"A", "B", "C", "D", "E", "F">>

IsNullish(v) == v.t \in {"undefined", "object"}

\* Number.prototype.toString for the non-negative integers used here
RECURSIVE NumberToString(_)
NumberToString(x) ==
    IF x < 10 THEN <<DigitChars[x + 1]>>
    ELSE NumberToString(x \div 10) \o <<DigitChars[(x % 10) + 1]>>

\* String(v): the text of a value
ToStringChars(v) ==
    CASE v.t = "string" -> v.s
      [] v.t = "number" -> NumberToString(v.n)
      [] v.t = "boolean" -> IF v.n = 1 THEN <<"t", "r", "u", "e">>
                            ELSE <<"f", "a", "l", "s", "e">>
      [] v.t = "undefined" -> <<"u", "n", "d", "e", "f", "i", "n", "e", "d">>
      [] OTHER -> <<"n", "u", "l", "l">>

\* s.startsWith("=") of a string value
StartsWithEq(v) == v.t = "string" /\ Len(v.s) > 0 /\ v.s[1] = "="

\* truthiness of a value (the left operand of ||, the test of if)
Truthy(v) ==
    CASE v.t = "string" -> Len(v.s) > 0
      [] v.t = "number" -> v.n # 0
      [] v.t = "boolean" -> v.n = 1
      [] OTHER -> FALSE

\* ------------------------------------------------------------ arrays of rows
Row(cells) == [ok |-> TRUE, cells |-> cells]
HoleRow == [ok |-> FALSE, cells |-> <<>>]

\* arr[i] = v on a JavaScript array: indexes between the old length and i
\* become holes
ArraySet(arr, i, v, hole) ==
    [k \in 1..(IF i + 1 > Len(arr) THEN i + 1 ELSE Len(arr)) |->
        IF k = i + 1 THEN v ELSE IF k <= Len(arr) THEN arr[k] ELSE hole]

\* grid[r][c], undefined where the row or the cell does not exist
GridAt(grid, r, c) ==
    IF r + 1 <= Len(grid) /\ grid[r + 1].ok /\ c + 1 <= Len(grid[r + 1].cells)
    THEN grid[r + 1].cells[c + 1] ELSE JsUndefined

\* the largest of a set of naturals, 0 for the empty set
Max(S) == IF S = {} THEN 0 ELSE CHOOSE x \in S : \A y \in S : y <= x

\* the smallest of a set of naturals, 0 for the empty set
Min(S) == IF S = {} THEN 0 ELSE CHOOSE x \in S : \A y \in S : x <= y

\* the length of the longest row
GridWidth(grid) == Max({Len(grid[i].cells) : i \in 1..Len(grid)})

\* !grid[r]: the row is missing (beyond the length, or a hole)
RowMissing(grid, r) == r + 1 > Len(grid) \/ ~grid[r + 1].ok


\* ------------------------------------------------- parsed spreadsheet files
\* A parsed sheet (XLSX.read): hasRef/s/e is the "!ref" used range, cells the
\* sparse cell table keyed by <<row, column>>.  A cell is [f, v, fg, bg]:
\* its formula text (<<>> when it has none), its value (JsUndefined when it
\* has none) and the rgb of its fill's foreground and background colour.
Cell(f, v, fg, bg) == [f |-> f, v |-> v, fg |-> fg, bg |-> bg]
NoCells == [a \in {} |-> Cell(<<>>, JsUndefined, <<>>, <<>>)]

Sheet1Chars == <<"S", "h", "e", "e", "t", "1">>
Sheet2Chars == <<"S", "h", "e", "e", "t", "2">>
DataChars == <<"D", "a", "t", "a">>
SheetNameChars(name) ==
    CASE name = "Sheet1" -> Sheet1Chars
      [] name = "Sheet2" -> Sheet2Chars
      [] OTHER -> DataChars
SheetNames == {"Sheet1", "Sheet2", "Data"}

\* the text Sheet1!A1*2
DoubleOfSheet1A1 == Sheet1Chars \o <<"!", "A", "1", "*", "2">>

\* Sheet1 is A1:B1 with A1 = 5 on a filled background and no cell at B1;
\* Sheet2 is A1 with the formula Sheet1!A1*2
CrossFile ==
    [SheetNames |-> <<"Sheet1", "Sheet2">>,
     Sheets |-> [name \in {"Sheet1", "Sheet2"} |->
        IF name = "Sheet1"
        THEN [hasRef |-> TRUE, s |-> <<0, 0>>, e |-> <<0, 1>>,
              cells |-> [a \in {<<0, 0>>} |->
                 Cell(<<>>, JsNumber(5),
                      <<"F", "F", "3", "3", "6", "6", "9", "9">>, <<>>)]]
        ELSE [hasRef |-> TRUE, s |-> <<0, 0>>, e |-> <<0, 0>>,
              cells |-> [a \in {<<0, 0>>} |->
                 Cell(DoubleOfSheet1A1, JsNumber(10), <<>>, <<>>)]]]]

\* one sheet without a used range
BareFile ==
    [SheetNames |-> <<"Data">>,
     Sheets |-> [name \in {"Data"} |->
        [hasRef |-> FALSE, s |-> <<0, 0>>, e |-> <<0, 0>>, cells |-> NoCells]]]

FileIds == {"cross", "bare"}
FileOf(fid) == IF fid = "cross" THEN CrossFile ELSE BareFile
NoFile == "<none>"

\* ---------------------------------------------------------------- decoder
\* colorToCss: null for a falsy input, else "#" and the text without its
\* two leading characters when it has eight
colorToCss(rgb) ==
    IF Len(rgb) = 0 THEN <<>>
    ELSE LET body == IF Len(rgb) = 8 THEN SubSeq(rgb, 3, 8) ELSE rgb
         IN  IF Len(body) > 0 THEN <<"#">> \o body ELSE <<>>

\* DecodeCell preferring the cell's value to its formula
DecodeCell_ValueFirst(cell) ==
    IF cell.v.t # "undefined" THEN cell.v
    ELSE IF Len(cell.f) > 0 THEN JsString(<<"=">> \o cell.f)
    ELSE EmptyString

\* the value pushed for one cell of the sparse table (App.js)
DecodeCell(cell) ==
    IF Len(cell.f) > 0 THEN JsString(<<"=">> \o cell.f)
    ELSE IF cell.v.t # "undefined" THEN cell.v
    ELSE EmptyString

\* the same in working.js: cell.v ?? ""
working_DecodeCell(cell) ==
    IF Len(cell.f) > 0 THEN JsString(<<"=">> \o cell.f)
    ELSE IF IsNullish(cell.v) THEN EmptyString
    ELSE cell.v

\* the background pushed for one cell: the fill's foreground rgb, else its
\* background rgb, else null (<<>>)
DecodeStyle(cell) ==
    IF Len(cell.fg) > 0 THEN colorToCss(cell.fg)
    ELSE IF Len(cell.bg) > 0 THEN colorToCss(cell.bg)
    ELSE <<>>

\* the two nested loops over the used range, pushing pushed[addr] for an
\* address that has a cell in the table and missing for one that has none
DecodeRange(ws, pushed, missing) ==
    [i \in 1..(ws.e[1] - ws.s[1] + 1) |->
        Row([j \in 1..(ws.e[2] - ws.s[2] + 1) |->
            LET addr == <<ws.s[1] + i - 1, ws.s[2] + j - 1>>
            IN  IF addr \in DOMAIN ws.cells THEN pushed[addr] ELSE missing])]

\* extractSheetData of App.js: never throws
extractSheetData(ws) ==
    IF ~ws.hasRef
    THEN [threw |-> FALSE, aoa |-> <<Row(<<>>)>>, styles |-> <<Row(<<>>)>>]
    ELSE [threw |-> FALSE,
          aoa |-> DecodeRange(ws,
                    [a \in DOMAIN ws.cells |-> DecodeCell(ws.cells[a])],
                    EmptyString),
          styles |-> DecodeRange(ws,
                    [a \in DOMAIN ws.cells |-> DecodeStyle(ws.cells[a])],
                    <<>>)]

\* extractSheetData of working.js: decode_range(undefined) throws a TypeError
\* when the sheet has no "!ref"; it extracts no styles
working_extractSheetData(ws) ==
    IF ~ws.hasRef
    THEN [threw |-> TRUE, aoa |-> <<>>, styles |-> <<>>]
    ELSE [threw |-> FALSE,
          aoa |-> DecodeRange(ws,
                    [a \in DOMAIN ws.cells |-> working_DecodeCell(ws.cells[a])],
                    EmptyString),
          styles |-> <<>>]

\* rgbToHex of the component at App.js:571-907: null for a text of any
\* length but eight and six
rgbToHex(rgb) ==
    IF Len(rgb) = 0 THEN <<>>
    ELSE LET hex == IF Len(rgb) = 8 THEN SubSeq(rgb, 3, 8)
                    ELSE IF Len(rgb) = 6 THEN rgb ELSE <<>>
         IN  IF Len(hex) > 0 THEN <<"#">> \o hex ELSE <<>>

\* --- column widths.  Widths are counted in hundredths (8.43 is 843); one
\* item of ws["!cols"] is [defined, wpx, width, wch], a field being 0 when the
\* item does not carry it, and defined = FALSE for an index without item.
Col(defined, wpx, width, wch) ==
    [defined |-> defined, wpx |-> wpx, width |-> width, wch |-> wch]
\* ws["!cols"]: isArray = FALSE when the sheet carries no column metadata
Cols(isArray, items) == [isArray |-> isArray, items |-> items]

\* Math.round of a number of hundredths, in hundredths
Round(h) == ((h + 50) \div 100) * 100

\* excelWidthToPx(w) for a number w
excelWidthToPx(w) == Round(w * 7 + 500)

\* the pixel width of one item of ws["!cols"] (App.js:89-97)
ColWidthPx(c) ==
    IF ~c.defined THEN excelWidthToPx(1000)
    ELSE IF c.wpx # 0 THEN c.wpx
    ELSE IF c.width # 0 THEN excelWidthToPx(c.width)
    ELSE IF c.wch # 0 THEN Round(c.wch * 7)
    ELSE excelWidthToPx(1000)

\* colWidthsPx of extractSheetData: has = FALSE is undefined
colWidthsPx(cols) ==
    IF cols.isArray /\ Len(cols.items) > 0
    THEN [has |-> TRUE, px |-> [k \in 1..Len(cols.items) |->
                                    ColWidthPx(cols.items[k])]]
    ELSE [has |-> FALSE, px |-> <<>>]

\* colWidths of the workbook entry:
\* sheetHasCols[sheetName] ? sheetColWidths[sheetName] : undefined
EntryColWidths(extracted) ==
    IF extracted.has THEN extracted ELSE [has |-> FALSE, px |-> <<>>]

\* the same item in the component at App.js:571-907 (App.js:645-650)
App3_ColWidth(c) ==
    IF c.defined /\ c.wpx # 0 THEN c.wpx
    ELSE IF c.defined /\ c.width # 0 THEN c.width
    ELSE IF c.defined /\ c.wch # 0 THEN Round(c.wch * 7)
    ELSE 12000

\* colWidths of that component's extractSheetData for a decoded grid of
\* colsCount columns: (ws["!cols"] || []).map(...), then 120 pushed up to
\* colsCount; the workbook entry takes the array as it is
App3_colWidths(cols, colsCount) ==
    LET mapped == IF cols.isArray
                  THEN [k \in 1..Len(cols.items) |-> App3_ColWidth(cols.items[k])]
                  ELSE <<>>
    IN  [has |-> TRUE,
         px |-> [k \in 1..Max({Len(mapped), colsCount}) |->
                    IF k <= Len(mapped) THEN mapped[k] ELSE 12000]]

\* --- the arguments the helpers are called with
\* the cells a parsed sheet may hold at an address: a formula with its cached
\* value, a formula whose text starts with "=", a number on a filled
\* background, a string whose fill has a background colour only, a boolean,
\* and a cell without value
CellKinds ==
    {Cell(<<"A", "1">>, JsNumber(5), <<>>, <<>>),
     Cell(<<"=", "A", "1">>, JsUndefined, <<>>, <<>>),
     Cell(<<>>, JsNumber(5), <<"F", "F", "3", "3", "6", "6", "9", "9">>, <<>>),
     Cell(<<>>, JsString(<<"x">>), <<>>, <<"3", "3", "6", "6", "9", "9">>),
     Cell(<<>>, JsBoolean(FALSE), <<>>, <<>>),
     Cell(<<>>, JsUndefined, <<>>, <<>>)}

\* the used ranges A1, A1:B1, A1:B2 and B2
UsedRanges == {<<<<0, 0>>, <<0, 0>>>>, <<<<0, 0>>, <<0, 1>>>>,
               <<<<0, 0>>, <<1, 1>>>>, <<<<1, 1>>, <<1, 1>>>>}
CellAddresses == {<<0, 0>>, <<0, 1>>, <<1, 1>>}

\* the parsed sheets: any cells at those addresses, under any of the ranges
\* or without "!ref"
ParsedSheets ==
    {[hasRef |-> TRUE, s |-> r[1], e |-> r[2], cells |-> cells] :
        r \in UsedRanges,
        cells \in UNION {[A -> CellKinds] : A \in SUBSET CellAddresses}}
    \cup {[hasRef |-> FALSE, s |-> <<0, 0>>, e |-> <<0, 0>>, cells |-> NoCells]}

\* the colour texts: none, 8 characters, 6 characters, 3 and 9 characters
RgbTexts ==
    {<<>>,
     <<"F", "F", "3", "3", "6", "6", "9", "9">>,
     <<"3", "3", "6", "6", "9", "9">>,
     <<"F", "F", "F">>,
     <<"F", "F", "3", "3", "6", "6", "9", "9", "0">>}

\* the items of ws["!cols"]: none at the index, one without field, a pixel
\* width, the widths 10 and 8.43, the character widths 8.43 and 10.5, and
\* one with all three fields
ColKinds ==
    {Col(FALSE, 0, 0, 0), Col(TRUE, 0, 0, 0), Col(TRUE, 6400, 0, 0),
     Col(TRUE, 0, 1000, 0), Col(TRUE, 0, 843, 0), Col(TRUE, 0, 0, 843),
     Col(TRUE, 0, 0, 1050), Col(TRUE, 10000, 1000, 900)}
ColsValues ==
    {Cols(FALSE, <<>>)}
    \cup {Cols(TRUE, items) : items \in UNION {[1..n -> ColKinds] : n \in 0..2}}

Arg(kind, ws, rgb, cols, colsCount) ==
    [kind |-> kind, ws |-> ws, rgb |-> rgb, cols |-> cols,
     colsCount |-> colsCount]
NoSheet == [hasRef |-> FALSE, s |-> <<0, 0>>, e |-> <<0, 0>>, cells |-> NoCells]
NoArg == Arg("", NoSheet, <<>>, Cols(FALSE, <<>>), 0)
Args ==
    {Arg("ws", ws, <<>>, Cols(FALSE, <<>>), 0) : ws \in ParsedSheets}
    \cup {Arg("rgb", NoSheet, rgb, Cols(FALSE, <<>>), 0) : rgb \in RgbTexts}
    \cup {Arg("cols", NoSheet, <<>>, cols, n) : cols \in ColsValues, n \in {0, 2}}

\* what a helper returned: the grids of extractSheetData, the colour of the
\* normalizer, or the workbook entry's column widths
Ret(fn, threw, aoa, styles, color, colWidths) ==
    [fn |-> fn, threw |-> threw, aoa |-> aoa, styles |-> styles,
     color |-> color, colWidths |-> colWidths]
NoRet == Ret("", FALSE, <<>>, <<>>, <<>>, [has |-> FALSE, px |-> <<>>])

\* --------------------------------------------------------- formula engine
\* The HyperFormula instance: the sheets in the order added and, per sheet,
\* the contents of its non-empty cells keyed by <<row, column>>.
NoEngine == [built |-> FALSE, id |-> NoFile, names |-> <<>>,
             cells |-> [n \in {} |-> [a \in {} |-> JsNull]]]

SeqToSet(q) == {q[i] : i \in 1..Len(q)}

\* HyperFormula.buildEmpty(), the instance built for the upload of file id
buildEmpty(id) == [NoEngine EXCEPT !.built = TRUE, !.id = id]

\* hf.addSheet(name)
addSheet(hf, name) ==
    [hf EXCEPT !.names = Append(hf.names, name),
               !.cells = [n \in DOMAIN hf.cells \cup {name} |->
                            IF n = name THEN [a \in {} |-> JsNull]
                            ELSE hf.cells[n]]]

\* the non-empty cells of an array of rows, keyed by address
ContentOf(aoa) ==
    LET addrs == {<<r, c>> \in (0..(Len(aoa) - 1)) \X (0..(GridWidth(aoa) - 1)) :
                    ~IsNullish(GridAt(aoa, r, c))}
    IN  [a \in addrs |-> GridAt(aoa, a[1], a[2])]

\* hf.setSheetContent(hf.getSheetId(name), aoa)
setSheetContent(hf, name, aoa) ==
    [hf EXCEPT !.cells = [n \in DOMAIN hf.cells |->
                            IF n = name THEN ContentOf(aoa) ELSE hf.cells[n]]]

\* hf.setCellContents({sheet, col, row}, [[v]]): null and undefined empty
\* the cell
setCellContents(hf, name, r, c, v) ==
    LET old == hf.cells[name]
        dom == (DOMAIN old \ {<<r, c>>})
                 \cup (IF IsNullish(v) THEN {} ELSE {<<r, c>>})
    IN  [hf EXCEPT !.cells = [n \in DOMAIN hf.cells |->
            IF n = name
            THEN [a \in dom |-> IF a = <<r, c>> THEN v ELSE old[a]]
            ELSE hf.cells[n]]]


\* --- the engine's reading of a cell's content
IsDigits(q) == Len(q) > 0 /\ \A i \in 1..Len(q) : q[i] \in SeqToSet(DigitChars)

DigitValue(ch) == (CHOOSE d \in 1..10 : DigitChars[d] = ch) - 1

RECURSIVE StringToNumber(_)
StringToNumber(q) ==
    IF Len(q) = 0 THEN 0
    ELSE 10 * StringToNumber(SubSeq(q, 1, Len(q) - 1)) + DigitValue(q[Len(q)])

\* the first index of ch in q, 0 when it has none
IndexOf(q, ch) ==
    IF \E i \in 1..Len(q) : q[i] = ch
    THEN CHOOSE i \in 1..Len(q) : q[i] = ch /\ \A j \in 1..(i - 1) : q[j] # ch
    ELSE 0

\* The formula language read here: <sheet>!<column letter><row>*<factor>.
\* Any other text after the "=" is a parse error.
ParseFormula(body) ==
    LET bang == IndexOf(body, "!")
        star == IndexOf(body, "*")
        wellFormed ==
            /\ bang > 1
            /\ star > bang + 2
            /\ body[bang + 1] \in SeqToSet(ColumnChars)
            /\ IsDigits(SubSeq(body, bang + 2, star - 1))
            /\ IsDigits(SubSeq(body, star + 1, Len(body)))
            /\ StringToNumber(SubSeq(body, bang + 2, star - 1)) >= 1
    IN  IF wellFormed
        THEN [ok |-> TRUE,
              sheet |-> SubSeq(body, 1, bang - 1),
              r |-> StringToNumber(SubSeq(body, bang + 2, star - 1)) - 1,
              c |-> (CHOOSE k \in 1..Len(ColumnChars) :
                        ColumnChars[k] = body[bang + 1]) - 1,
              m |-> StringToNumber(SubSeq(body, star + 1, Len(body)))]
        ELSE [ok |-> FALSE, sheet |-> <<>>, r |-> 0, c |-> 0, m |-> 0]

ErrorValue(code) == [t |-> "error", n |-> 0, s |-> code]
RefError == ErrorValue(<<"#", "R", "E", "F", "!">>)
CycleError == ErrorValue(<<"#", "C", "Y", "C", "L", "E", "!">>)
ValueError == ErrorValue(<<"#", "V", "A", "L", "U", "E", "!">>)
ParseError == ErrorValue(<<"#", "E", "R", "R", "O", "R", "!">>)

\* the number an operand of * stands for, or the error it yields
TimesOperand(v, m) ==
    CASE v.t = "error" -> v
      [] v.t = "number" -> JsNumber(v.n * m)
      [] v.t = "boolean" -> JsNumber(v.n * m)
      [] v.t = "string" /\ Len(v.s) > 0 -> ValueError
      [] OTHER -> JsNumber(0)

\* The value of the cell at <<r, c>> of sheet name, given the contents of
\* every sheet of the instance; visiting is the chain of cells being
\* evaluated, a reference back into it is a cycle.
RECURSIVE CellValue(_, _, _, _)
CellValue(hf, name, a, visiting) ==
    LET v == IF a \in DOMAIN hf.cells[name] THEN hf.cells[name][a] ELSE JsNull
        text == v.s
    IN  IF v.t # "string" THEN v
        ELSE IF text \in {<<"t", "r", "u", "e">>, <<"T", "R", "U", "E">>}
        THEN JsBoolean(TRUE)
        ELSE IF text \in {<<"f", "a", "l", "s", "e">>, <<"F", "A", "L", "S", "E">>}
        THEN JsBoolean(FALSE)
        ELSE IF StartsWithEq(v)
        THEN LET f == ParseFormula(SubSeq(text, 2, Len(text)))
                 targets == {n \in DOMAIN hf.cells : SheetNameChars(n) = f.sheet}
             IN  IF ~f.ok THEN ParseError
                 ELSE IF targets = {} THEN RefError
                 ELSE LET target == CHOOSE n \in targets : TRUE
                          here == <<name, a>>
                          there == <<target, <<f.r, f.c>>>>
                      IN  IF there \in visiting \cup {here} THEN CycleError
                          ELSE TimesOperand(
                                 CellValue(hf, target, <<f.r, f.c>>,
                                           visiting \cup {here}), f.m)
        ELSE IF IsDigits(text) THEN JsNumber(StringToNumber(text))
        ELSE v

\* drop the trailing empty values of a row
RECURSIVE TrimRight(_)
TrimRight(q) ==
    IF Len(q) > 0 /\ IsNullish(q[Len(q)]) THEN TrimRight(SubSeq(q, 1, Len(q) - 1))
    ELSE q

\* hf.getSheetValues(hf.getSheetId(name)): one row per row of the sheet up to
\* its last non-empty cell, each row cut after its last non-empty value
getSheetValues(hf, name) ==
    LET used == DOMAIN hf.cells[name]
        height == IF used = {} THEN 0 ELSE Max({a[1] : a \in used}) + 1
        width == IF used = {} THEN 0 ELSE Max({a[2] : a \in used}) + 1
    IN  [i \in 1..height |->
            Row(TrimRight([j \in 1..width |->
                    CellValue(hf, name, <<i - 1, j - 1>>, {})]))]


\* -------------------------------------------------------------------- state
VARIABLES
    rev,            \* the component mounted: "App" (App.js) or "working" (working.js)
    workbookData,   \* useState: [keys, sheets], sheets[name] = [raw, data]
    activeSheet,    \* useState: a sheet name, NullSheet or UndefinedSheet
    hfInstanceRef,  \* useRef: the formula engine instance
    stylesRef,      \* useRef: per sheet, the grid of background colours
    readers,        \* the files whose FileReader has not completed its read
    lastStarted,    \* while a read is in flight, the file of the latest
                    \* handleFileUpload; NoFile when none is
    nCells,         \* cells reported by the change events so far
    lastCall,       \* the change event or the export handled last, when no
                    \* other handler ran since: [op, source, changes, threw,
                    \* log]
    hotSheetName,   \* the engine sheet the formulas plugin of the mounted grid
                    \* (hotRef) is bound to, NoBinding when it is bound to none
    timers,         \* the setTimeout callbacks pending, in the order scheduled:
                    \* [delay, sheetName]
    arg,            \* the argument a helper of the decoder is called with
    ret             \* what the helper called last returned

vars == <<rev, workbookData, activeSheet, hfInstanceRef, stylesRef, readers,
          lastStarted, nCells, lastCall, hotSheetName, timers, arg, ret>>

\* the state of the component
component == <<rev, workbookData, activeSheet, hfInstanceRef, stylesRef,
               readers, lastStarted, nCells, lastCall>>
\* the state of the grid widget and of its deferred callbacks
widget == <<hotSheetName, timers>>
NoBinding == "<none>"
\* the argument and the result of a helper called on its own
helper == <<arg, ret>>

Revisions == {"App", "working"}
NullSheet == "<null>"
UndefinedSheet == "<undefined>"
IsSheet(name) == name \notin {NullSheet, UndefinedSheet}

EmptyWorkbook ==
    [keys |-> <<>>, sheets |-> [n \in {} |-> [raw |-> <<>>, data |-> <<>>]]]
NoStyles == [n \in {} |-> <<>>]

\* one entry of the engine call trace of a handler
Ev(e, sh, r, c) == [e |-> e, sh |-> sh, r |-> r, c |-> c]
Call(op, source, changes, threw, log) ==
    [op |-> op, source |-> source, changes |-> changes, threw |-> threw,
     log |-> log]
\* neither a change event nor an export handled since the last other handler
NoCall == Call("", "", <<>>, FALSE, <<>>)

\* ------------------------------------------------------------ change events
\* the values a change to A1, a cell of the loaded grid, may carry, and the
\* values a change to B3, two rows and a column beyond it, may carry
EditValues ==
    {JsNull, JsNumber(0), JsBoolean(FALSE), JsString(<<"7">>),
     JsString(<<"=">> \o DoubleOfSheet1A1)}
FarValues == {JsString(<<"7">>)}
Change(row, col, newValue) == [row |-> row, col |-> col, newValue |-> newValue]
Changes ==
    {Change(0, 0, v) : v \in EditValues} \cup {Change(2, 1, v) : v \in FarValues}
Sources == {"edit", "loadData"}

\* A change event: its source and its changes (hasChanges = FALSE is null).
ChangeEvent(source, hasChanges, changes) ==
    [source |-> source, hasChanges |-> hasChanges, changes |-> changes]

\* the events reporting at most k cells: a user edit of 0 to k cells, a bulk
\* load of no cell or one, and either with null changes
ChangeEventsUpTo(k) ==
    {ChangeEvent("edit", TRUE, b) : b \in UNION {[1..n -> Changes] : n \in 0..k}}
    \cup {ChangeEvent("loadData", TRUE, b) :
            b \in UNION {[1..n -> Changes] : n \in 0..(IF k > 0 THEN 1 ELSE 0)}}
    \cup {ChangeEvent(src, FALSE, <<>>) : src \in Sources}

Init ==
    /\ rev \in Revisions
    /\ workbookData = EmptyWorkbook
    /\ activeSheet = NullSheet
    /\ hfInstanceRef = NoEngine
    /\ stylesRef = NoStyles
    /\ readers = {}
    /\ lastStarted = NoFile
    /\ nCells = 0
    /\ lastCall = NoCall
    /\ hotSheetName = NoBinding
    /\ timers = <<>>
    /\ arg = NoArg
    /\ ret = NoRet

\* ------------------------------------------------------------------- upload
\* handleFileUpload: without a chosen file (fid = NoFile) nothing happens,
\* else a FileReader is created and its read started
handleFileUpload(fid) ==
    /\ readers' = IF fid = NoFile THEN readers ELSE readers \cup {fid}
    /\ lastStarted' = IF fid = NoFile THEN lastStarted ELSE fid
    /\ lastCall' = NoCall
    /\ UNCHANGED <<rev, workbookData, activeSheet, hfInstanceRef, stylesRef,
                   nCells>>

\* wb.SheetNames.forEach: addSheet and setSheetContent, in order
RECURSIVE SeedEngine(_, _, _, _)
SeedEngine(hf, names, sheetsData, i) ==
    IF i > Len(names) THEN hf
    ELSE SeedEngine(
            setSheetContent(addSheet(hf, names[i]), names[i],
                            sheetsData[names[i]]),
            names, sheetsData, i + 1)

\* the workbook state built from the decoded grids and the seeded engine
NewWorkbook(names, sheetsData, hf) ==
    [keys |-> names,
     sheets |-> [n \in SeqToSet(names) |->
                    [raw |-> sheetsData[n], data |-> getSheetValues(hf, n)]]]

\* wb.SheetNames[0]
FirstSheet(names) == IF Len(names) > 0 THEN names[1] ELSE UndefinedSheet

\* what reader.onload of either revision leaves, given what its decoder
\* extracted from each sheet
LoadResult(id, file, extracted) ==
    LET names == file.SheetNames
        sheetsData == [n \in SeqToSet(names) |-> extracted[n].aoa]
        hf == SeedEngine(buildEmpty(id), names, sheetsData, 1)
    IN  [threw |-> \E n \in SeqToSet(names) : extracted[n].threw,
         hf |-> hf,
         workbook |-> NewWorkbook(names, sheetsData, hf),
         styles |-> [n \in SeqToSet(names) |-> extracted[n].styles],
         active |-> FirstSheet(names)]

\* lastStarted once the reads left in flight are those of left
StillStarted(left) == IF left = {} THEN NoFile ELSE lastStarted

\* wb.SheetNames.forEach((sheetName) => extractSheetData(wb.Sheets[sheetName]))
Extracted(file) ==
    [n \in SeqToSet(file.SheetNames) |-> extractSheetData(file.Sheets[n])]

working_Extracted(file) ==
    [n \in SeqToSet(file.SheetNames) |-> working_extractSheetData(file.Sheets[n])]

\* reader.onload of App.js
onload(reader) ==
    LET res == LoadResult(reader, FileOf(reader), Extracted(FileOf(reader)))
    IN  /\ rev = "App"
        /\ reader \in readers
        /\ readers' = readers \ {reader}
        /\ hfInstanceRef' = res.hf
        /\ stylesRef' = res.styles
        /\ workbookData' = res.workbook
        /\ activeSheet' = res.active
        /\ lastStarted' = StillStarted(readers \ {reader})
        /\ lastCall' = NoCall
        /\ UNCHANGED <<rev, nCells>>

\* reader.onload of working.js: a throw of extractSheetData leaves the
\* callback before anything is assigned
working_onload(reader) ==
    LET res == LoadResult(reader, FileOf(reader),
                          working_Extracted(FileOf(reader)))
    IN  /\ rev = "working"
        /\ reader \in readers
        /\ readers' = readers \ {reader}
        /\ IF res.threw
           THEN UNCHANGED <<hfInstanceRef, workbookData, activeSheet>>
           ELSE /\ hfInstanceRef' = res.hf
                /\ workbookData' = res.workbook
                /\ activeSheet' = res.active
        /\ lastStarted' = StillStarted(readers \ {reader})
        /\ lastCall' = NoCall
        /\ UNCHANGED <<rev, stylesRef, nCells>>


\* ------------------------------------------------------------------- resync
\* Object.keys(updatedWorkbook).forEach: data = getSheetValues(getSheetId(name)).
\* A key the engine has no sheet for makes getSheetValues throw; the entries
\* before it keep their new data.
RECURSIVE ResyncFrom(_, _, _, _)
ResyncFrom(wb, hf, log, i) ==
    IF i > Len(wb.keys) THEN [threw |-> FALSE, wb |-> wb, log |-> log]
    ELSE LET name == wb.keys[i]
         IN  IF name \notin DOMAIN hf.cells
             THEN [threw |-> TRUE, wb |-> wb, log |-> log]
             ELSE ResyncFrom(
                    [wb EXCEPT !.sheets[name].data = getSheetValues(hf, name)],
                    hf, Append(log, Ev("getSheetValues", name, 0, 0)), i + 1)

ResyncAll(wb, hf, log) == ResyncFrom(wb, hf, log, 1)

\* the "Refresh Workbook" button is rendered when hasData holds
hasData ==
    /\ IsSheet(activeSheet)
    /\ activeSheet \in DOMAIN workbookData.sheets
    /\ \/ Len(workbookData.sheets[activeSheet].data) > 0
       \/ Len(workbookData.sheets[activeSheet].raw) > 0

\* hasData of working.js looks at data alone
working_hasData ==
    /\ IsSheet(activeSheet)
    /\ activeSheet \in DOMAIN workbookData.sheets
    /\ Len(workbookData.sheets[activeSheet].data) > 0

\* handleRefresh of App.js: resync and redraw
handleRefresh ==
    /\ rev = "App"
    /\ hasData
    /\ workbookData' = IF ~hfInstanceRef.built THEN workbookData
                       ELSE ResyncAll(workbookData, hfInstanceRef, <<>>).wb
    /\ lastCall' = NoCall
    /\ UNCHANGED <<rev, activeSheet, hfInstanceRef, stylesRef, readers,
                   lastStarted, nCells>>

\* handleRefresh of working.js
working_handleRefresh ==
    /\ rev = "working"
    /\ working_hasData
    /\ workbookData' = IF ~hfInstanceRef.built THEN workbookData
                       ELSE ResyncAll(workbookData, hfInstanceRef, <<>>).wb
    /\ lastCall' = NoCall
    /\ UNCHANGED <<rev, activeSheet, hfInstanceRef, stylesRef, readers,
                   lastStarted, nCells>>

\* the tab button of a sheet: setActiveSheet(name)
tabClick(name) ==
    /\ name \in SeqToSet(workbookData.keys)
    /\ activeSheet' = name
    /\ lastCall' = NoCall
    /\ UNCHANGED <<rev, workbookData, hfInstanceRef, stylesRef, readers,
                   lastStarted, nCells>>

\* ------------------------------------------------------------------- export
\* XLSX.utils.aoa_to_sheet(aoa): a missing row and an undefined entry are
\* skipped, every other entry widens the used range, and every entry but null
\* becomes a cell holding the entry as its value (a string starting with "="
\* is stored as a string value: no cell gets a formula).  Without any entry
\* the sheet has no "!ref".
aoa_to_sheet(aoa) ==
    LET present == {a \in (0..(Len(aoa) - 1)) \X (0..(GridWidth(aoa) - 1)) :
                      GridAt(aoa, a[1], a[2]).t # "undefined"}
        stored == {a \in present : ~IsNullish(GridAt(aoa, a[1], a[2]))}
    IN  IF present = {}
        THEN [hasRef |-> FALSE, s |-> <<0, 0>>, e |-> <<0, 0>>, cells |-> NoCells]
        ELSE [hasRef |-> TRUE,
              s |-> <<Min({a[1] : a \in present}), Min({a[2] : a \in present})>>,
              e |-> <<Max({a[1] : a \in present}), Max({a[2] : a \in present})>>,
              cells |-> [a \in stored |->
                           Cell(<<>>, GridAt(aoa, a[1], a[2]), <<>>, <<>>)]]

\* The workbook handleExport hands to XLSX.writeFile: one sheet per entry of
\* Object.entries(workbookData), in order, built from the entry's raw.  An
\* entry without raw makes aoa_to_sheet(undefined) throw, and no file is
\* written.
ExportedBook(wb) ==
    [threw |-> \E n \in SeqToSet(wb.keys) : n \notin DOMAIN wb.sheets,
     SheetNames |-> wb.keys,
     Sheets |-> [n \in SeqToSet(wb.keys) \cap DOMAIN wb.sheets |->
                    aoa_to_sheet(wb.sheets[n].raw)]]

\* XLSX.writeFile of a sheet and XLSX.read of the file written: the cells and
\* the used range are kept; a sheet without "!ref" is written with the
\* dimension A1 and read with "!ref" A1
ReadBack(ws) == IF ws.hasRef THEN ws ELSE [ws EXCEPT !.hasRef = TRUE]

\* handleExport, the "Download Updated Excel" button, rendered when the
\* revision's hasData holds: it reads the workbook and assigns nothing
handleExport ==
    /\ IF rev = "App" THEN hasData ELSE working_hasData
    /\ lastCall' = Call("handleExport", "", <<>>,
                        ExportedBook(workbookData).threw, <<>>)
    /\ UNCHANGED <<rev, workbookData, activeSheet, hfInstanceRef, stylesRef,
                   readers, lastStarted, nCells>>

\* ---------------------------------------------------------- external styles
\* The JSON handed to applyExternalStyles: absent, or a list of entries
\* [sheetName, colWidths, rowHeights, hasStyles, styles]; colWidths and
\* rowHeights say whether the entry carries that array, styles is the list of
\* [coord, hex] pairs of its "styles" object.
JsonEntry(sheetName, colWidths, rowHeights, hasStyles, styles) ==
    [sheetName |-> sheetName, colWidths |-> colWidths,
     rowHeights |-> rowHeights, hasStyles |-> hasStyles, styles |-> styles]
NoJson == [present |-> FALSE, entries |-> <<>>]
\* { "Data": { colWidths: [...] }, "Sheet1": { styles: { r0c0: "#FF0000" } } }
SizesAndStyles ==
    [present |-> TRUE,
     entries |-> <<JsonEntry("Data", TRUE, FALSE, FALSE, <<>>),
                   JsonEntry("Sheet1", FALSE, FALSE, TRUE,
                     <<[coord |-> <<"r", "0", "c", "0">>,
                        hex |-> <<"#", "F", "F", "0", "0", "0", "0">>]>>)>>]
ExternalJsons == {NoJson, SizesAndStyles}

\* coord.match(/^r(\d+)c(\d+)$/) and the two parseInt
ParseCoord(coord) ==
    LET c == IndexOf(coord, "c")
        matches ==
            /\ Len(coord) >= 4
            /\ coord[1] = "r"
            /\ c > 2
            /\ IsDigits(SubSeq(coord, 2, c - 1))
            /\ IsDigits(SubSeq(coord, c + 1, Len(coord)))
    IN  IF matches
        THEN [ok |-> TRUE,
              rr |-> StringToNumber(SubSeq(coord, 2, c - 1)),
              cc |-> StringToNumber(SubSeq(coord, c + 1, Len(coord)))]
        ELSE [ok |-> FALSE, rr |-> 0, cc |-> 0]

\* raw.map((r, ri) => r.map((c, ci) => null)): map keeps the holes
Styles2d(raw) ==
    [i \in 1..Len(raw) |->
        IF raw[i].ok THEN Row([j \in 1..Len(raw[i].cells) |-> <<>>])
        ELSE HoleRow]

\* Object.entries(entry.styles).forEach: if (styles2d[rr]) styles2d[rr][cc] = hex
RECURSIVE PaintStyles(_, _, _)
PaintStyles(styles2d, pairs, i) ==
    IF i > Len(pairs) THEN styles2d
    ELSE LET m == ParseCoord(pairs[i].coord)
         IN  PaintStyles(
                IF m.ok /\ ~RowMissing(styles2d, m.rr)
                THEN [styles2d EXCEPT ![m.rr + 1] =
                        Row(ArraySet(styles2d[m.rr + 1].cells, m.cc,
                                     pairs[i].hex, <<>>))]
                ELSE styles2d,
                pairs, i + 1)

\* if (!nextWB[sheetName]) nextWB[sheetName] = {}: a key whose entry has
\* neither raw nor data
AddKey(wb, name) ==
    IF name \in SeqToSet(wb.keys) THEN wb
    ELSE [wb EXCEPT !.keys = Append(wb.keys, name)]

\* Object.keys(json).forEach on st = [wb, styles]
RECURSIVE MergeEntries(_, _, _)
MergeEntries(st, entries, i) ==
    IF i > Len(entries) THEN st
    ELSE LET entry == entries[i]
             name == entry.sheetName
             wb == IF entry.colWidths \/ entry.rowHeights
                   THEN AddKey(st.wb, name) ELSE st.wb
             raw == IF name \in DOMAIN wb.sheets THEN wb.sheets[name].raw
                    ELSE <<Row(<<>>)>>
             styles2d == PaintStyles(Styles2d(raw), entry.styles, 1)
         IN  MergeEntries(
                [wb |-> wb,
                 styles |-> IF entry.hasStyles
                            THEN [n \in DOMAIN st.styles \cup {name} |->
                                    IF n = name THEN styles2d ELSE st.styles[n]]
                            ELSE st.styles],
                entries, i + 1)

\* applyExternalStyles of App.js, the helper that merges an external JSON of
\* styles and sizes
applyExternalStyles(json) ==
    /\ rev = "App"
    /\ IF ~json.present
       THEN UNCHANGED <<workbookData, stylesRef>>
       ELSE LET st == MergeEntries([wb |-> workbookData, styles |-> stylesRef],
                                   json.entries, 1)
            IN  /\ workbookData' = st.wb
                /\ stylesRef' = st.styles
    /\ lastCall' = NoCall
    /\ UNCHANGED <<rev, activeSheet, hfInstanceRef, readers, lastStarted, nCells>>

\* --------------------------------------------------------------------- edit
\* the value written for newValue (App.js): newValue ?? "" unless a formula
EditInput(newValue) ==
    IF StartsWithEq(newValue) THEN newValue
    ELSE IF IsNullish(newValue) THEN EmptyString
    ELSE newValue

\* the same in working.js: newValue || ""
working_EditInput(newValue) ==
    IF StartsWithEq(newValue) THEN newValue
    ELSE IF Truthy(newValue) THEN newValue
    ELSE EmptyString

\* the content handed to the engine (App.js): input === "" ? "" : String(input)
EngineInput(input) ==
    IF input = EmptyString THEN EmptyString ELSE JsString(ToStringChars(input))

\* raw[row][col] = input on a row that exists
WriteCell(raw, row, col, input) ==
    [raw EXCEPT ![row + 1] =
        Row(ArraySet(raw[row + 1].cells, col, input, JsUndefined))]

\* if (!raw[row]) raw[row] = []
EnsureRow(raw, row) ==
    IF RowMissing(raw, row) THEN ArraySet(raw, row, Row(<<>>), HoleRow) ELSE raw

\* One cell of changes.forEach in App.js, on st = [wb, hf, log, threw].
\* Reading .raw of a workbook entry that has none throws before anything is
\* written; addressing a sheet the engine does not have throws after raw is
\* written.
ApplyChange(st, active, ch) ==
    IF ~IsSheet(active) THEN st
    ELSE IF active \notin DOMAIN st.wb.sheets
    THEN [st EXCEPT !.threw = TRUE]
    ELSE LET input == EditInput(ch.newValue)
             raw == EnsureRow(st.wb.sheets[active].raw, ch.row)
             wb == [st.wb EXCEPT !.sheets[active].raw =
                       WriteCell(raw, ch.row, ch.col, input)]
         IN  IF active \notin DOMAIN st.hf.cells
             THEN [st EXCEPT !.wb = wb, !.threw = TRUE]
             ELSE [wb |-> wb,
                   hf |-> setCellContents(st.hf, active, ch.row, ch.col,
                                          EngineInput(input)),
                   log |-> Append(st.log,
                             Ev("setCellContents", active, ch.row, ch.col)),
                   threw |-> FALSE]

\* One cell of changes.forEach in working.js: no row is added, so a missing
\* row throws; the engine gets input itself and recomputes at once.
working_ApplyChange(st, active, ch) ==
    IF ~IsSheet(active) THEN st
    ELSE IF \/ active \notin DOMAIN st.wb.sheets
            \/ RowMissing(st.wb.sheets[active].raw, ch.row)
    THEN [st EXCEPT !.threw = TRUE]
    ELSE LET input == working_EditInput(ch.newValue)
             wb == [st.wb EXCEPT !.sheets[active].raw =
                       WriteCell(st.wb.sheets[active].raw, ch.row, ch.col, input)]
         IN  IF ~st.hf.built \/ active \notin DOMAIN st.hf.cells
             THEN [st EXCEPT !.wb = wb, !.threw = TRUE]
             ELSE [wb |-> wb,
                   hf |-> setCellContents(st.hf, active, ch.row, ch.col, input),
                   log |-> st.log \o
                           <<Ev("setCellContents", active, ch.row, ch.col),
                             Ev("recompute", "", 0, 0)>>,
                   threw |-> FALSE]

\* changes.forEach: the cells in the order reported, up to a throw
RECURSIVE ApplyChanges(_, _, _, _)
ApplyChanges(st, active, changes, i) ==
    IF i > Len(changes) \/ st.threw THEN st
    ELSE ApplyChanges(ApplyChange(st, active, changes[i]), active, changes,
                      i + 1)

RECURSIVE working_ApplyChanges(_, _, _, _)
working_ApplyChanges(st, active, changes, i) ==
    IF i > Len(changes) \/ st.threw THEN st
    ELSE working_ApplyChanges(working_ApplyChange(st, active, changes[i]),
                              active, changes, i + 1)


\* IgnoresEvent without its test of the source
IgnoresEvent_AnySource(ev, hf) == ~ev.hasChanges \/ ~hf.built

\* source === "loadData" || !changes || !hfInstanceRef.current
IgnoresEvent(ev, hf) == ev.source = "loadData" \/ ~ev.hasChanges \/ ~hf.built

\* source === "loadData" || !changes
working_IgnoresEvent(ev) == ev.source = "loadData" \/ ~ev.hasChanges

\* hfInstanceRef.current.batch(() => changes.forEach(...)): the cells are
\* applied with evaluation suspended, and the engine recomputes once when the
\* scope closes
Batch(wb, hf, active, changes) ==
    LET st == ApplyChanges(
                [wb |-> wb, hf |-> hf, threw |-> FALSE,
                 log |-> <<Ev("batchBegin", "", 0, 0)>>],
                active, changes, 1)
    IN  [st EXCEPT !.log = st.log \o <<Ev("batchEnd", "", 0, 0),
                                       Ev("recompute", "", 0, 0)>>]

\* AfterBatch resyncing the active sheet alone
AfterBatch_ActiveSheetOnly(wb, hf, log) ==
    [threw |-> FALSE,
     wb |-> [wb EXCEPT !.sheets[activeSheet].data =
                getSheetValues(hf, activeSheet)],
     log |-> Append(log, Ev("getSheetValues", activeSheet, 0, 0))]

\* the snapshot refresh that closes handleAfterChange
AfterBatch(wb, hf, log) == ResyncAll(wb, hf, log)

\* handleAfterChange clearing the styles instead of entering the edit protocol
handleAfterChange_ClearsStyles(ev) ==
    /\ nCells' = nCells + Len(ev.changes)
    /\ stylesRef' = NoStyles
    /\ lastCall' = Call("handleAfterChange", ev.source, ev.changes, FALSE, <<>>)
    /\ UNCHANGED <<rev, workbookData, activeSheet, hfInstanceRef, readers,
                   lastStarted>>

\* handleAfterChange of App.js, the afterChange hook of the mounted grid
handleAfterChange(ev) ==
    /\ nCells' = nCells + Len(ev.changes)
    /\ IF IgnoresEvent(ev, hfInstanceRef)
       THEN /\ UNCHANGED <<workbookData, hfInstanceRef>>
            /\ lastCall' = Call("handleAfterChange", ev.source, ev.changes,
                                FALSE, <<>>)
       ELSE LET st == Batch(workbookData, hfInstanceRef, activeSheet,
                            ev.changes)
                res == AfterBatch(st.wb, st.hf, st.log)
            IN  IF st.threw
                THEN /\ workbookData' = st.wb
                     /\ hfInstanceRef' = st.hf
                     /\ lastCall' = Call("handleAfterChange", ev.source,
                                         ev.changes, TRUE, st.log)
                ELSE /\ workbookData' = res.wb
                     /\ hfInstanceRef' = st.hf
                     /\ lastCall' = Call("handleAfterChange", ev.source,
                            ev.changes, res.threw,
                            IF res.threw THEN res.log
                            ELSE res.log \o <<Ev("setWorkbookData", "", 0, 0),
                                              Ev("render", "", 0, 0)>>)
    /\ UNCHANGED <<rev, activeSheet, stylesRef, readers, lastStarted>>

\* handleAfterChange of working.js: no batching scope
working_handleAfterChange(ev) ==
    /\ nCells' = nCells + Len(ev.changes)
    /\ IF working_IgnoresEvent(ev)
       THEN /\ UNCHANGED <<workbookData, hfInstanceRef>>
            /\ lastCall' = Call("handleAfterChange", ev.source, ev.changes,
                                FALSE, <<>>)
       ELSE LET st == working_ApplyChanges(
                        [wb |-> workbookData, hf |-> hfInstanceRef,
                         threw |-> FALSE, log |-> <<>>],
                        activeSheet, ev.changes, 1)
                res == ResyncAll(st.wb, st.hf, st.log)
            IN  IF st.threw
                THEN /\ workbookData' = st.wb
                     /\ hfInstanceRef' = st.hf
                     /\ lastCall' = Call("handleAfterChange", ev.source,
                                         ev.changes, TRUE, st.log)
                ELSE /\ workbookData' = res.wb
                     /\ hfInstanceRef' = st.hf
                     /\ lastCall' = Call("handleAfterChange", ev.source,
                            ev.changes, res.threw,
                            IF res.threw THEN res.log
                            ELSE Append(res.log,
                                        Ev("setWorkbookData", "", 0, 0)))
    /\ UNCHANGED <<rev, activeSheet, stylesRef, readers, lastStarted>>

\* the grid is rendered while activeSheet is set, and delivers its change
\* events to the afterChange hook
afterChange ==
    /\ rev = "App"
    /\ IsSheet(activeSheet)
    /\ \E ev \in ChangeEventsUpTo(MaxCells - nCells) : handleAfterChange(ev)

working_afterChange ==
    /\ rev = "working"
    /\ IsSheet(activeSheet)
    /\ \E ev \in ChangeEventsUpTo(MaxCells - nCells) :
            working_handleAfterChange(ev)

\* --------------------------------------------------------- the grid widget
\* hotInstance.updateSettings({ formulas: { engine, sheetName } }) on a plugin
\* bound to binding: the plugin switches to a sheet the engine has, and stays
\* where it is for a name the engine does not have
updateSettings(binding, hf, sheetName) ==
    IF hf.built /\ sheetName \in SeqToSet(hf.names) THEN sheetName ELSE binding

\* The render that follows a state update: the grid is mounted while
\* activeSheet is set, and HotTable passes formulas = { engine:
\* hfInstanceRef.current, sheetName: activeSheet } to the widget.
Rendered(binding, hf, active) ==
    IF IsSheet(active) THEN updateSettings(binding, hf, active) ELSE NoBinding

\* setTimeout(callback, delay), the callback rebinding the plugin to sheetName
Timer(delay, sheetName) == [delay |-> delay, sheetName |-> sheetName]

\* reader.onload of App.js with the render it causes and the callback it
\* defers by 50 ms, which names the first sheet of the file
hot_onload(reader) ==
    /\ Len(timers) < MaxTimers
    /\ onload(reader)
    /\ hotSheetName' = Rendered(hotSheetName, hfInstanceRef', activeSheet')
    /\ timers' = Append(timers, Timer(50, FirstSheet(FileOf(reader).SheetNames)))

\* the tab button of App.js with the render it causes and the callback it
\* defers by 0 ms, which names the sheet of the tab
hot_tabClick(name) ==
    /\ rev = "App"
    /\ Len(timers) < MaxTimers
    /\ tabClick(name)
    /\ hotSheetName' = Rendered(hotSheetName, hfInstanceRef, name)
    /\ timers' = Append(timers, Timer(0, name))

\* A pending callback is due before another when it was scheduled earlier
\* with a delay that is not longer; the callback scheduled i-th may run once
\* none scheduled before it is due before it.
MayFire(i) ==
    /\ i \in 1..Len(timers)
    /\ \A j \in 1..(i - 1) : timers[j].delay > timers[i].delay

\* the deferred callback of onload or of a tab click:
\* if (hotRef.current?.hotInstance && hfInstanceRef.current) updateSettings(...)
timerFires(i) ==
    /\ MayFire(i)
    /\ timers' = [k \in 1..(Len(timers) - 1) |->
                    IF k < i THEN timers[k] ELSE timers[k + 1]]
    /\ hotSheetName' =
          IF IsSheet(activeSheet) /\ hfInstanceRef.built
          THEN updateSettings(hotSheetName, hfInstanceRef, timers[i].sheetName)
          ELSE hotSheetName
    /\ lastCall' = NoCall
    /\ UNCHANGED <<rev, workbookData, activeSheet, hfInstanceRef, stylesRef,
                   readers, lastStarted, nCells>>

\* handleRefresh, applyExternalStyles and handleAfterChange of App.js with
\* the render their setWorkbookData causes
hot_handleRefresh ==
    /\ handleRefresh
    /\ hotSheetName' = Rendered(hotSheetName, hfInstanceRef, activeSheet)
    /\ UNCHANGED timers

hot_applyExternalStyles(json) ==
    /\ applyExternalStyles(json)
    /\ hotSheetName' = IF json.present
                       THEN Rendered(hotSheetName, hfInstanceRef, activeSheet)
                       ELSE hotSheetName
    /\ UNCHANGED timers

hot_afterChange ==
    /\ rev = "App"
    /\ IsSheet(activeSheet)
    /\ \E ev \in ChangeEventsUpTo(Max({MaxHotCells - nCells, 0})) :
            handleAfterChange(ev)
    /\ hotSheetName' =
          IF Len(lastCall'.log) > 0 /\ ~lastCall'.threw
          THEN Rendered(hotSheetName, hfInstanceRef', activeSheet)
          ELSE hotSheetName
    /\ UNCHANGED timers

\* ------------------------------------------------------------ helper calls
\* extractSheetData(ws) of App.js
call_extractSheetData ==
    /\ rev = "App"
    /\ arg.kind = "ws"
    /\ LET e == extractSheetData(arg.ws)
       IN  ret' = Ret("extractSheetData", e.threw, e.aoa, e.styles, <<>>,
                      NoRet.colWidths)
    /\ UNCHANGED arg

\* extractSheetData(ws) of working.js
call_working_extractSheetData ==
    /\ rev = "working"
    /\ arg.kind = "ws"
    /\ LET e == working_extractSheetData(arg.ws)
       IN  ret' = Ret("extractSheetData", e.threw, e.aoa, e.styles, <<>>,
                      NoRet.colWidths)
    /\ UNCHANGED arg

\* colorToCss(rgb)
call_colorToCss ==
    /\ rev = "App"
    /\ arg.kind = "rgb"
    /\ ret' = Ret("colorToCss", FALSE, <<>>, <<>>, colorToCss(arg.rgb),
                  NoRet.colWidths)
    /\ UNCHANGED arg

\* rgbToHex(rgb)
call_rgbToHex ==
    /\ rev = "App"
    /\ arg.kind = "rgb"
    /\ ret' = Ret("rgbToHex", FALSE, <<>>, <<>>, rgbToHex(arg.rgb),
                  NoRet.colWidths)
    /\ UNCHANGED arg

\* the column widths extractSheetData of App.js decodes and onload stores
call_colWidthsPx ==
    /\ rev = "App"
    /\ arg.kind = "cols"
    /\ ret' = Ret("colWidthsPx", FALSE, <<>>, <<>>, <<>>,
                  EntryColWidths(colWidthsPx(arg.cols)))
    /\ UNCHANGED arg

\* the column widths of the component at App.js:571-907
call_App3_colWidths ==
    /\ rev = "App"
    /\ arg.kind = "cols"
    /\ ret' = Ret("App3_colWidths", FALSE, <<>>, <<>>, <<>>,
                  App3_colWidths(arg.cols, arg.colsCount))
    /\ UNCHANGED arg

\* ----------------------------------------------------------- specifications
\* The component of either revision: its state, its engine and its styles.
\* The grid widget is outside: it delivers the change events, and what the
\* handlers defer to it is left out.
Next ==
    \/ (\E fid \in FileIds \cup {NoFile} : handleFileUpload(fid))
          /\ UNCHANGED <<widget, helper>>
    \/ (\E reader \in readers : onload(reader)) /\ UNCHANGED <<widget, helper>>
    \/ (\E reader \in readers : working_onload(reader))
          /\ UNCHANGED <<widget, helper>>
    \/ handleRefresh /\ UNCHANGED <<widget, helper>>
    \/ working_handleRefresh /\ UNCHANGED <<widget, helper>>
    \/ handleExport /\ UNCHANGED <<widget, helper>>
    \/ (\E name \in SheetNames : tabClick(name)) /\ UNCHANGED <<widget, helper>>
    \/ (\E json \in ExternalJsons : applyExternalStyles(json))
          /\ UNCHANGED <<widget, helper>>
    \/ afterChange /\ UNCHANGED <<widget, helper>>
    \/ working_afterChange /\ UNCHANGED <<widget, helper>>

Spec == Init /\ [][Next]_vars

\* The component of App.js together with the formulas plugin of its grid and
\* the callbacks it defers.
HotInit == rev = "App" /\ Init

HotNext ==
    \/ (\E fid \in FileIds \cup {NoFile} : handleFileUpload(fid))
          /\ UNCHANGED <<widget, helper>>
    \/ (\E reader \in readers : hot_onload(reader)) /\ UNCHANGED helper
    \/ (\E name \in SheetNames : hot_tabClick(name)) /\ UNCHANGED helper
    \/ (\E i \in 1..MaxTimers : timerFires(i)) /\ UNCHANGED helper
    \/ hot_handleRefresh /\ UNCHANGED helper
    \/ handleExport /\ UNCHANGED <<widget, helper>>
    \/ (\E json \in ExternalJsons : hot_applyExternalStyles(json))
          /\ UNCHANGED helper
    \/ hot_afterChange /\ UNCHANGED helper

HotSpec == HotInit /\ [][HotNext]_vars

\* The helpers of the decoder, each called on its own with an argument taken
\* from Args.
DecoderInit ==
    /\ rev \in Revisions
    /\ workbookData = EmptyWorkbook
    /\ activeSheet = NullSheet
    /\ hfInstanceRef = NoEngine
    /\ stylesRef = NoStyles
    /\ readers = {}
    /\ lastStarted = NoFile
    /\ nCells = 0
    /\ lastCall = NoCall
    /\ hotSheetName = NoBinding
    /\ timers = <<>>
    /\ arg \in Args
    /\ ret = NoRet

DecoderNext ==
    \/ call_extractSheetData /\ UNCHANGED <<component, widget>>
    \/ call_working_extractSheetData /\ UNCHANGED <<component, widget>>
    \/ call_colorToCss /\ UNCHANGED <<component, widget>>
    \/ call_rgbToHex /\ UNCHANGED <<component, widget>>
    \/ call_colWidthsPx /\ UNCHANGED <<component, widget>>
    \/ call_App3_colWidths /\ UNCHANGED <<component, widget>>

DecoderSpec == DecoderInit /\ [][DecoderNext]_vars

\* ------------------------------------------------------------------- claims
\* a missing grid entry and an empty engine value are both "no value"
Norm(v) == IF IsNullish(v) THEN JsNull ELSE v

\* the workbook entries that carry grids
Entries == DOMAIN workbookData.sheets

\* the addresses of either grid of an entry
Addresses(name) ==
    LET raw == workbookData.sheets[name].raw
        data == workbookData.sheets[name].data
    IN  (0..(Max({Len(raw), Len(data)}) - 1))
            \X (0..(Max({GridWidth(raw), GridWidth(data)}) - 1))

\* an engine seeded anew from the raw grid of every entry
EngineOfRaw ==
    SeedEngine(buildEmpty(NoFile),
               SelectSeq(workbookData.keys, LAMBDA n : n \in Entries),
               [n \in Entries |-> workbookData.sheets[n].raw], 1)

\* the last handler was handleAfterChange and took a user edit into the
\* edit protocol
EditHandled ==
    /\ lastCall.op = "handleAfterChange"
    /\ lastCall.source = "edit"
    /\ Len(lastCall.changes) > 0
    /\ Len(lastCall.log) > 0

\* the last change of the last change event
LastChange == lastCall.changes[Len(lastCall.changes)]

\* C1: in every reachable state, for every sheet, row and column, data holds
\* what the engine evaluates for the raw grids of the whole workbook.
C1_DataIsEvaluationOfRaw ==
    \A name \in Entries : \A a \in Addresses(name) :
        Norm(GridAt(workbookData.sheets[name].data, a[1], a[2]))
            = Norm(CellValue(EngineOfRaw, name, a, {}))

\* the number of columns of each row, in row order
Shape(grid) == [i \in 1..Len(grid) |-> Len(grid[i].cells)]

\* C2: in every reachable state, for every sheet, raw, data and styles have
\* the same number of rows and, row by row, the same number of columns.
C2_SameDimensions ==
    \A name \in Entries :
        /\ Shape(workbookData.sheets[name].raw)
              = Shape(workbookData.sheets[name].data)
        /\ rev = "App" =>
              /\ name \in DOMAIN stylesRef
              /\ Shape(stylesRef[name]) = Shape(workbookData.sheets[name].raw)

\* both sheets of the cross-sheet file are loaded and Sheet2!A1 still holds
\* its formula
CrossLoaded ==
    /\ {"Sheet1", "Sheet2"} \subseteq Entries
    /\ GridAt(workbookData.sheets["Sheet2"].raw, 0, 0)
          = JsString(<<"=">> \o DoubleOfSheet1A1)

\* C3: when an edit batch closes, the data of every sheet is what the engine
\* holds for it, not only the active sheet's; with Sheet1!A1 = 5 and
\* Sheet2!A1 = Sheet1!A1*2 the data of Sheet2 A1 is 10 after the load and 14
\* after Sheet1 A1 is edited to 7.
C3_EverySheetResynced ==
    /\ (EditHandled /\ ~lastCall.threw) =>
          \A name \in Entries :
              workbookData.sheets[name].data = getSheetValues(hfInstanceRef, name)
    /\ (CrossLoaded /\ nCells = 0) =>
          GridAt(workbookData.sheets["Sheet2"].data, 0, 0) = JsNumber(10)
    /\ (CrossLoaded /\ EditHandled /\ ~lastCall.threw /\ activeSheet = "Sheet1"
          /\ GridAt(workbookData.sheets["Sheet1"].raw, 0, 0) = JsString(<<"7">>)) =>
          GridAt(workbookData.sheets["Sheet2"].data, 0, 0) = JsNumber(14)

\* Sheet1 A1 was edited to 7 while Sheet1 was active, and the data of
\* Sheet2 A1 shows 14
C3_EditedSheet1Shows14 ==
    /\ CrossLoaded
    /\ EditHandled
    /\ ~lastCall.threw
    /\ activeSheet = "Sheet1"
    /\ LastChange = Change(0, 0, JsString(<<"7">>))
    /\ GridAt(workbookData.sheets["Sheet2"].data, 0, 0) = JsNumber(14)

\* C4: in every reachable state the sheet names that are keys of the
\* workbook are the sheet names of the current engine instance.
C4_KeysAreEngineSheets ==
    SeqToSet(workbookData.keys) = SeqToSet(hfInstanceRef.names)

\* what the read of file fid leaves when its callback runs to its end
Loaded(fid) ==
    IF rev = "App" THEN LoadResult(fid, FileOf(fid), Extracted(FileOf(fid)))
    ELSE LoadResult(fid, FileOf(fid), working_Extracted(FileOf(fid)))

\* C5: once the callbacks of all reads in flight have fired, the workbook,
\* the styles, the engine instance and the active sheet are those of the
\* upload started last, whatever the order of the callbacks.
C5_LaterUploadSupersedes ==
    [][(readers # {} /\ readers' = {} /\ ~Loaded(lastStarted).threw) =>
          /\ workbookData' = Loaded(lastStarted).workbook
          /\ hfInstanceRef' = Loaded(lastStarted).hf
          /\ activeSheet' = Loaded(lastStarted).active
          /\ rev = "App" => stylesRef' = Loaded(lastStarted).styles]_vars

\* C6: handleAfterChange called with source "loadData" leaves every raw
\* grid, every data grid and the engine unchanged, and makes no engine call,
\* no resync and no redraw.
C6_LoadDataIsIgnored ==
    [][(lastCall'.op = "handleAfterChange" /\ lastCall'.source = "loadData") =>
          /\ workbookData' = workbookData
          /\ hfInstanceRef' = hfInstanceRef
          /\ lastCall'.log = <<>>
          /\ ~lastCall'.threw]_vars

\* a "loadData" event carrying a cell was delivered while an engine and an
\* active sheet existed
C6_LoadDataEventWithCells ==
    /\ lastCall.op = "handleAfterChange"
    /\ lastCall.source = "loadData"
    /\ Len(lastCall.changes) > 0
    /\ hfInstanceRef.built
    /\ activeSheet \in Entries

\* the engine calls of one batching scope around the cells of changes, in
\* the order reported
OneBatch(changes) ==
    <<Ev("batchBegin", "", 0, 0)>>
    \o [i \in 1..Len(changes) |->
            Ev("setCellContents", activeSheet, changes[i].row, changes[i].col)]
    \o <<Ev("batchEnd", "", 0, 0), Ev("recompute", "", 0, 0)>>

\* the value the edit protocol writes for newValue
Written(newValue) ==
    IF StartsWithEq(newValue) THEN newValue
    ELSE IF IsNullish(newValue) THEN EmptyString
    ELSE newValue

\* the index of the last change of changes that addresses <<row, col>>
LastTo(changes, row, col) ==
    Max({i \in 1..Len(changes) : changes[i].row = row /\ changes[i].col = col})

\* C7: the cells of one change event are applied in the order reported, each
\* written to the raw grid of the active sheet and to the engine, all engine
\* writes inside one batching scope, with one recomputation and no resync of
\* data between two cells.
C7_OneBatchInOrder ==
    (EditHandled /\ ~lastCall.threw /\ activeSheet \in Entries) =>
        LET changes == lastCall.changes
            log == lastCall.log
            n == Len(changes) + 3
        IN  /\ Len(log) >= n
            /\ SubSeq(log, 1, n) = OneBatch(changes)
            /\ \A k \in (n + 1)..Len(log) :
                  log[k].e \notin {"setCellContents", "recompute", "batchBegin"}
            /\ \A i \in 1..Len(changes) :
                  LET last == changes[LastTo(changes, changes[i].row,
                                             changes[i].col)]
                  IN  /\ GridAt(workbookData.sheets[activeSheet].raw,
                                changes[i].row, changes[i].col)
                            = Written(last.newValue)
                      /\ <<changes[i].row, changes[i].col>>
                            \in DOMAIN hfInstanceRef.cells[activeSheet]

\* C8: an edit at (row, col) of an existing sheet leaves every row index up
\* to row existing as a row of raw and raw[row][col] holding a value; the
\* handler does not fail because the row is missing.
C8_RowsArePadded ==
    (lastCall.op = "handleAfterChange" /\ lastCall.source = "edit"
        /\ hfInstanceRef.built /\ activeSheet \in Entries) =>
        \A i \in 1..Len(lastCall.changes) :
            /\ \A r \in 0..lastCall.changes[i].row :
                  ~RowMissing(workbookData.sheets[activeSheet].raw, r)
            /\ GridAt(workbookData.sheets[activeSheet].raw,
                      lastCall.changes[i].row, lastCall.changes[i].col)
                  # JsUndefined

\* C9: after an edit of (row, col) with new value v, raw[row][col] is v when
\* v is a string starting with "=", v when v is any other present value (0
\* and false included), and the empty string only when v is null or undefined.
C9_RawHoldsNewValue ==
    (EditHandled /\ ~lastCall.threw /\ activeSheet \in Entries) =>
        GridAt(workbookData.sheets[activeSheet].raw, LastChange.row,
               LastChange.col) = Written(LastChange.newValue)

\* C10: decoding a sheet without a used range gives a raw grid of one empty
\* row and a style grid of one empty row without failing, and the upload of
\* a file holding such a sheet completes and populates the workbook.
C10_NoRangeIsAnEmptySheet ==
    [][("bare" \in readers /\ "bare" \notin readers') =>
          /\ workbookData'.keys = <<"Data">>
          /\ DOMAIN workbookData'.sheets = {"Data"}
          /\ workbookData'.sheets["Data"].raw = <<Row(<<>>)>>
          /\ hfInstanceRef'.names = <<"Data">>
          /\ activeSheet' = "Data"
          /\ rev = "App" => stylesRef' = [n \in {"Data"} |-> <<Row(<<>>)>>]]_vars

\* the addresses of the used range of a parsed sheet
RangeAddresses(ws) == (ws.s[1]..ws.e[1]) \X (ws.s[2]..ws.e[2])

\* the entry a decoded grid holds for address a of the sheet: the rows and
\* the entries of a row follow the rows and the columns of the used range
EntryFor(grid, ws, a) == GridAt(grid, a[1] - ws.s[1], a[2] - ws.s[2])

\* extractSheetData returned from a sheet that has a used range
Decoded == ret.fn = "extractSheetData" /\ arg.ws.hasRef

\* C11: a cell whose stored formula text already starts with "=" decodes to
\* that text unchanged, with one leading "=" and never "==".
C11_FormulaKeepsOneEquals ==
    (Decoded /\ ~ret.threw) =>
        \A a \in RangeAddresses(arg.ws) \cap DOMAIN arg.ws.cells :
            StartsWithEq(JsString(arg.ws.cells[a].f)) =>
                EntryFor(ret.aoa, arg.ws, a) = JsString(arg.ws.cells[a].f)

\* what the decoder is to yield for address a: the formula text after "=",
\* else the literal value, else the empty string; the empty string where the
\* sparse table has no cell
Expected(ws, a) ==
    IF a \notin DOMAIN ws.cells THEN EmptyString
    ELSE IF Len(ws.cells[a].f) > 0 THEN JsString(<<"=">> \o ws.cells[a].f)
    ELSE IF ws.cells[a].v.t # "undefined" THEN ws.cells[a].v
    ELSE EmptyString

C15_ColorIsHashAndSix ==
    (ret.fn \in {"colorToCss", "rgbToHex"}) =>
        /\ ret.color = <<>> \/ (Len(ret.color) = 7 /\ ret.color[1] = "#")
        /\ arg.rgb \in {<<"F", "F", "3", "3", "6", "6", "9", "9">>,
                        <<"3", "3", "6", "6", "9", "9">>}
              => ret.color = <<"#", "3", "3", "6", "6", "9", "9">>
        /\ arg.rgb = <<>> => ret.color = <<>>

\* the fallback widths of the two components, 75 and 120
FixedFallbacks == {7500, 12000}

\* C16: each column's width is its pixel-width field verbatim, else
\* round(width*7+5), else round(wch*7), else a fixed fallback; a sheet without
\* column metadata gets no width array and its workbook entry no colWidths.
C16_ColumnWidthPriority ==
    (ret.fn \in {"colWidthsPx", "App3_colWidths"}) =>
        IF ~arg.cols.isArray THEN ~ret.colWidths.has
        ELSE Len(arg.cols.items) > 0 =>
               /\ ret.colWidths.has
               /\ Len(ret.colWidths.px) >= Len(arg.cols.items)
               /\ \A k \in 1..Len(arg.cols.items) :
                     LET c == arg.cols.items[k]
                         px == ret.colWidths.px[k]
                     IN  IF c.defined /\ c.wpx # 0 THEN px = c.wpx
                         ELSE IF c.defined /\ c.width # 0
                         THEN px = Round(c.width * 7 + 500)
                         ELSE IF c.defined /\ c.wch # 0
                         THEN px = Round(c.wch * 7)
                         ELSE px \in FixedFallbacks

\* the raw grid decoded from sheet name of the file the export writes
Redecoded(name) ==
    LET ws == ReadBack(ExportedBook(workbookData).Sheets[name])
    IN  IF rev = "App" THEN extractSheetData(ws).aoa
        ELSE working_extractSheetData(ws).aoa

\* the content at an address: the empty string where there is no entry
Content(grid, a) ==
    IF IsNullish(GridAt(grid, a[1], a[2])) THEN EmptyString
    ELSE GridAt(grid, a[1], a[2])

\* two grids hold the same content at every address of either
SameContent(g, h) ==
    \A a \in (0..(Max({Len(g), Len(h)}) - 1))
                \X (0..(Max({GridWidth(g), GridWidth(h)}) - 1)) :
        Content(g, a) = Content(h, a)

\* C13: exporting the raw grids into a file and decoding that file gives, for
\* every sheet, a raw grid with the same content cell by cell, formula
\* strings included.
C13_ExportThenDecodeIsIdentity ==
    (lastCall.op = "handleExport" /\ ~lastCall.threw) =>
        \A name \in Entries :
            SameContent(workbookData.sheets[name].raw, Redecoded(name))

\* C14: an export writes one sheet per workbook entry, in workbook order,
\* each holding the entries of that sheet's raw grid as values (a formula as
\* its "="-prefixed string, not as its computed value), and leaves the
\* workbook, the styles and the engine unchanged.
C14_ExportWritesRawOfEveryEntry ==
    [][lastCall'.op = "handleExport" =>
          /\ ~lastCall'.threw
          /\ workbookData' = workbookData
          /\ stylesRef' = stylesRef
          /\ hfInstanceRef' = hfInstanceRef
          /\ LET book == ExportedBook(workbookData)
             IN  /\ book.SheetNames = workbookData.keys
                 /\ DOMAIN book.Sheets = SeqToSet(workbookData.keys)
                 /\ \A name \in DOMAIN book.Sheets :
                      LET raw == workbookData.sheets[name].raw
                      IN  \A a \in (0..(Len(raw) - 1)) \X (0..(GridWidth(raw) - 1)) :
                            ~IsNullish(GridAt(raw, a[1], a[2])) =>
                               /\ a \in DOMAIN book.Sheets[name].cells
                               /\ book.Sheets[name].cells[a].v
                                     = GridAt(raw, a[1], a[2])
                               /\ book.Sheets[name].cells[a].f = <<>>]_vars

\* C17: in every reachable state every row index of a raw grid up to its
\* last holds a row, and all rows of the grid have the same length.
C17_RawIsRectangular ==
    \A name \in Entries :
        LET raw == workbookData.sheets[name].raw
        IN  \A i \in 1..Len(raw) :
                /\ raw[i].ok
                /\ Len(raw[i].cells) = Len(raw[1].cells)

C19_PluginBoundToActiveSheet ==
    (timers = <<>> /\ activeSheet \in Entries) =>
        /\ hotSheetName = activeSheet
        /\ activeSheet \in SeqToSet(hfInstanceRef.names)

\* C20: in every reachable state the active sheet is unset or names a
\* workbook entry that has a raw grid and a sheet of the engine.
C20_ActiveSheetIsLoaded ==
    IsSheet(activeSheet) =>
        /\ activeSheet \in Entries
        /\ activeSheet \in SeqToSet(hfInstanceRef.names)

\* an engine sheet seeded from a decoded grid, as the upload seeds it
SeededFrom(aoa) ==
    setSheetContent(addSheet(buildEmpty(NoFile), "Sheet1"), "Sheet1",
                    aoa).cells["Sheet1"]

\* C21: the decoder keeps cell addresses: the cell at sheet address (R, C)
\* is at raw[R][C] of the decoded grid and at address (R, C) of the engine
\* sheet seeded from it, for every used range, one that does not start at A1
\* included.
C21_DecoderKeepsAddresses ==
    (Decoded /\ ~ret.threw) =>
        \A a \in RangeAddresses(arg.ws) \cap DOMAIN arg.ws.cells :
            ~StartsWithEq(JsString(arg.ws.cells[a].f)) =>
                /\ GridAt(ret.aoa, a[1], a[2]) = Expected(arg.ws, a)
                /\ a \in DOMAIN SeededFrom(ret.aoa)
                /\ SeededFrom(ret.aoa)[a] = Expected(arg.ws, a)

=============================================================================
